---- MODULE Spec2Model ----
(***************************************************************************)
(* A model of the DQN training script dqn.py: the replay memory, the step  *)
(* counter, the online and the target network, the window of episode       *)
(* durations, and the control loop (training episodes, then the endless    *)
(* evaluation loop once the rolling average reaches the threshold).        *)
(*                                                                         *)
(* The environment (gymnasium CartPole-v1) and the numeric kernels of the  *)
(* networks and of the optimizer are outside the script: the environment   *)
(* answers nondeterministically, a network is a parameter value with a     *)
(* fixed forward function, and an optimizer step yields any parameter      *)
(* value.                                                                  *)
(***************************************************************************)
EXTENDS Integers, Sequences, FiniteSets

(***************************************************************************)
(* Bounds. The script's constants are scaled down so that the state space  *)
(* is finite and small; every formula below is stated in terms of these    *)
(* names, not of their values.                                             *)
(***************************************************************************)
\* deque(maxlen=50000), scaled
Capacity == 2
\* batch_size = 32, scaled
batch_size == 2
\* eps_count % 1000, scaled
SyncInterval == 3
\* range(1000), scaled
NumEpisodes == 4
\* len(avg_window_steps) > 5, scaled
WindowSize == 2
\* CartPole-v1 truncates an episode at 500 steps, scaled
MaxEpisodeSteps == 2

\* a float has PrecisionBits significant bits (float64: 53), scaled
PrecisionBits == 3
\* the smallest positive float is 2^-GridBits (float64: 2^-1074), scaled
GridBits == 6
\* decay is probed at steps 0..MaxProbeStep
MaxProbeStep == 8
\* decay is probed at rates 1..MaxProbeRate
MaxProbeRate == 2

\* Floats are written as integers, in units of the smallest positive float.
\* the float 1.0
One == 2 ^ GridBits

\* epsilon_start = 1
epsilon_start == One
\* epsilon_end = 0.001, scaled: the smallest positive float
epsilon_end == 1
\* epsilon_decayrate = 0.003, scaled: rates are written in units of ln 2, so
\* that exp(-rate * step) is the power of two 2^-(rate * step)
epsilon_decayrate == 1
\* gamma = 0.99, in hundredths
gamma == 99

\* avg_steps >= 499: one less than the environment's episode limit of 500
threshold == MaxEpisodeSteps - 1

\* observations, abstracted to two values
Obs == {0, 1}
\* nn.Linear(64, 2): two actions
Actions == {0, 1}
\* parameter values of a network, abstracted to two values
ParamValues == {0, 1}

VARIABLES
  pc,               \* position of the control flow
  t,                \* for t in range(...): episodes completed without convergence
  step,             \* for step in itertools.count()
  eps_count,        \* the cumulative step counter
  state,            \* current observation
  action,           \* last selected action
  done,             \* last term or trunc
  env_elapsed,      \* env.step calls since the env's last reset (TimeLimit)
  online_net,       \* parameters of online_net
  target_net,       \* parameters of target_net
  replay_memory,    \* deque of experiences
  experiences,      \* last sampled batch
  avg_window_steps, \* deque of recorded episode durations
  n_updates,        \* history: optimizer.step() calls so far
  n_syncs,          \* history: scheduled target_net.load_state_dict calls so far
  epsilon,          \* last computed exploration probability
  optimal_q_values, \* last computed Bellman targets, one per batch element
  has_grad,         \* the networks whose parameters hold a gradient (.grad)
  decay_probe       \* a call of decay under test: arguments and result

vars == <<pc, t, step, eps_count, state, action, done, env_elapsed, online_net,
          target_net, replay_memory, experiences, avg_window_steps, n_updates,
          n_syncs,
                 epsilon, optimal_q_values, has_grad, decay_probe>>

----------------------------------------------------------------------------
(* Pure helpers *)

RECURSIVE BitLen(_)
\* the number of binary digits of n >= 0
BitLen(n) == IF n = 0 THEN 0 ELSE 1 + BitLen(n \div 2)

Abs(x) == IF x < 0 THEN 0 - x ELSE x

\* the distance between neighbouring floats at magnitude n
Ulp(n) ==
  IF BitLen(Abs(n)) <= PrecisionBits THEN 1
  ELSE 2 ^ (BitLen(Abs(n)) - PrecisionBits)

\* the integer nearest to a / b (a >= 0, b > 0), ties to the even one
RoundHalfEven(a, b) ==
  LET f == a \div b
      r == a % b
  IN  IF 2 * r < b THEN f
      ELSE IF 2 * r > b THEN f + 1
      ELSE IF f % 2 = 0 THEN f ELSE f + 1

\* floating-point rounding of the exact result num / den (den > 0): the
\* nearest float, ties to even
RoundFloat(num, den) ==
  LET a == Abs(num)
      u == Ulp(a \div den)
      r == u * RoundHalfEven(a, den * u)
  IN  IF num < 0 THEN 0 - r ELSE r

\* float addition, subtraction and multiplication
FAdd(a, b) == RoundFloat(a + b, 1)
FSub(a, b) == RoundFloat(a - b, 1)
FMul(a, b) == RoundFloat(a * b, One)

\* np.exp(x) for x a whole number of ln 2 units: the float nearest to 2^x
NpExp(x) ==
  IF x <= 0 THEN RoundFloat(One, 2 ^ (0 - x)) ELSE RoundFloat(One * 2 ^ x, 1)

\* mutant of decay: the exponent has the wrong sign
decayGrowing(eps_start, eps_end, eps_decayrate, current_step) ==
  FAdd(eps_end, FMul(FSub(eps_start, eps_end),
                     NpExp(eps_decayrate * current_step)))

\* decay, line 61
decay(eps_start, eps_end, eps_decayrate, current_step) ==
  FAdd(eps_end, FMul(FSub(eps_start, eps_end),
                     NpExp(-1 * eps_decayrate * current_step)))

\* line 87: decay(epsilon_start, epsilon_end, epsilon_decayrate, n), tabulated
\* for every value n the step counter can take in a run
EpsilonAt ==
  [n \in 0..(NumEpisodes * MaxEpisodeSteps) |->
     decay(epsilon_start, epsilon_end, epsilon_decayrate, n)]

\* the floats between -1.0 and 1.0
Floats == { n \in (0 - One)..One : RoundFloat(n, 1) = n }

RECURSIVE Sum(_)
Sum(s) == IF s = <<>> THEN 0 ELSE Head(s) + Sum(Tail(s))

\* Network.forward: the vector of q-values of parameters p at observation s
Forward(p, s) == <<p * s, p - s>>

\* torch.argmax / tensor.max over a q-value vector: first index of the maximum
ArgMax(q) ==
  CHOOSE a \in Actions :
    /\ \A b \in Actions : q[a + 1] >= q[b + 1]
    /\ \A b \in Actions : (b < a) => q[b + 1] < q[a + 1]

\* Network.act
Act(p, s) == ArgMax(Forward(p, s))

\* mutant of DequeAppend: a full deque drops its newest entry, not its oldest
DequeAppendEvictsNewest(q, x, maxlen) ==
  IF Len(q) >= maxlen THEN SubSeq(q, 1, Len(q) - 1) \o <<x>> ELSE q \o <<x>>

\* deque.append on a deque with maxlen
DequeAppend(q, x, maxlen) ==
  IF Len(q) >= maxlen THEN Tail(q) \o <<x>> ELSE q \o <<x>>

\* mutant of Sample: positions are drawn with replacement
SampleWithReplacement(population, k) ==
  { { population[f[i]] : i \in 1..k } : f \in [1..k -> 1..Len(population)] }

\* random.sample(population, k): the elements at k distinct positions. The
\* order of the batch is not modelled: the batch is the set of its elements
\* (every stored experience carries its own seq, so none coincide).
Sample(population, k) ==
  { { population[i] : i \in I } :
      I \in { J \in SUBSET (1..Len(population)) : Cardinality(J) = k } }

\* np.average(w) >= th, without division
AvgAtLeast(w, th) == Sum(w) >= th * Len(w)

\* mutant of ShouldTrain: strict comparison
ShouldTrainStrict(mem) == Len(mem) > batch_size

\* the condition of line 106
ShouldTrain(mem) == Len(mem) >= batch_size

\* mutant of ShouldSync: fires one step late
ShouldSyncLate(count) == count % SyncInterval = 1

\* the condition of line 150
ShouldSync(count) == count % SyncInterval = 0

\* mutant of OptimizerStep: the optimizer also holds the target's parameters
OptimizerStepBoth(online, target, p) == <<p, p>>

\* optimizer = Adam(online_net.parameters()); optimizer.step(): the pair
\* <<online, target>> of parameters after a step that moves online to p
OptimizerStep(online, target, p) == <<p, target>>

\* dst.load_state_dict(src.state_dict()): the parameters of dst afterwards
LoadStateDict(src, dst) == src

\* mutant of UpdateThenSync: the target is synchronised before the update
SyncThenUpdate(online, target, train, sync, p) ==
  LET tgt == IF sync THEN LoadStateDict(online, target) ELSE target
  IN  IF train THEN OptimizerStep(online, tgt, p) ELSE <<online, tgt>>

\* lines 106-152: the pair <<online, target>> after a step: the optimizer step
\* (when train) comes first, the synchronisation (when sync) second
UpdateThenSync(online, target, train, sync, p) ==
  LET nets == IF train THEN OptimizerStep(online, target, p)
                       ELSE <<online, target>>
  IN  <<nets[1], IF sync THEN LoadStateDict(nets[1], nets[2]) ELSE nets[2]>>

\* mutant of WindowPush: the window is never trimmed
WindowPushKeepsAll(w, x) == Append(w, x)

\* avg_window_steps.append(x), then popleft() when longer than the window
WindowPush(w, x) ==
  LET w1 == Append(w, x) IN IF Len(w1) > WindowSize THEN Tail(w1) ELSE w1

\* the value line 155 records for an episode that ends at loop index s
RecordedDuration(s) == s

----------------------------------------------------------------------------
(* The state after the module-level initialisation, lines 63-79.  Names    *)
(* that Python has not bound yet (state, action, done, step, experiences,  *)
(* t) hold a placeholder.                                                  *)
Init ==
  /\ pc = "episode"
  /\ t = 0
  /\ step = 0
  /\ eps_count = 0
  /\ state = 0
  /\ action = 0
  /\ done = FALSE
  /\ env_elapsed = 0
  /\ online_net \in ParamValues
  /\ target_net \in { LoadStateDict(online_net, p) : p \in ParamValues }
  /\ replay_memory = <<>>
  /\ experiences = {}
  /\ avg_window_steps = <<>>
  /\ n_updates = 0
  /\ n_syncs = 0
  /\ epsilon = epsilon_start
  /\ optimal_q_values = <<>>
  /\ has_grad = {}
  /\ decay_probe = <<>>

\* mutant of StartEpisode: the step counter restarts with every episode
StartEpisodeResetsCount ==
  /\ pc = "episode"
  /\ t < NumEpisodes
  /\ \E s0 \in Obs : state' = s0
  /\ env_elapsed' = 0
  /\ step' = 0
  /\ eps_count' = 0
  /\ pc' = "step"
  /\ UNCHANGED <<t, action, done, online_net, target_net, replay_memory,
                 experiences, avg_window_steps, n_updates, n_syncs,
                 epsilon, optimal_q_values, has_grad, decay_probe>>

\* mutant of StartEpisode: the episode loop runs once more than range(...)
StartEpisodeOnceMore ==
  /\ pc = "episode"
  /\ t <= NumEpisodes
  /\ \E s0 \in Obs : state' = s0
  /\ env_elapsed' = 0
  /\ step' = 0
  /\ pc' = "step"
  /\ UNCHANGED <<t, eps_count, action, done, online_net, target_net,
                 replay_memory, experiences, avg_window_steps, n_updates,
                 n_syncs,
                 epsilon, optimal_q_values, has_grad, decay_probe>>

\* mutant of StartEpisode: every episode starts with an empty replay memory
StartEpisodeClearsMemory ==
  /\ pc = "episode"
  /\ t < NumEpisodes
  /\ \E s0 \in Obs : state' = s0
  /\ env_elapsed' = 0
  /\ step' = 0
  /\ replay_memory' = <<>>
  /\ pc' = "step"
  /\ UNCHANGED <<t, eps_count, action, done, online_net, target_net,
                 experiences, avg_window_steps, n_updates, n_syncs,
                 epsilon, optimal_q_values, has_grad, decay_probe>>

\* for t in range(...): state, _ = env.reset(); the inner loop starts at step 0
StartEpisode ==
  /\ pc = "episode"
  /\ t < NumEpisodes
  /\ \E s0 \in Obs : state' = s0
  /\ env_elapsed' = 0
  /\ step' = 0
  /\ pc' = "step"
  /\ UNCHANGED <<t, eps_count, action, done, online_net, target_net,
                 replay_memory, experiences, avg_window_steps, n_updates,
                 n_syncs,
                 epsilon, optimal_q_values, has_grad, decay_probe>>

\* range(...) is exhausted: the script ends
Exit ==
  /\ pc = "episode"
  /\ t >= NumEpisodes
  /\ pc' = "exit"
  /\ UNCHANGED <<t, step, eps_count, state, action, done, env_elapsed,
                 online_net, target_net, replay_memory, experiences,
                 avg_window_steps, n_updates, n_syncs,
                 epsilon, optimal_q_values, has_grad, decay_probe>>

\* lines 90-95: the actions the epsilon-greedy choice can yield. random.random()
\* is a float u with 0 <= u < 1: u < eps is possible when eps > 0 (explore,
\* any action), u >= eps when eps < 1 (exploit, the greedy action).
SelectAction(eps, p, s) ==
  (IF eps > 0 THEN Actions ELSE {}) \cup (IF eps < One THEN {Act(p, s)} ELSE {})

\* mutant of ScheduleStep: the schedule restarts with every episode
ScheduleStepOfEpisode(count, st) == st + 1

\* the step line 87 passes to decay: the cumulative counter, not the
\* episode's own step
ScheduleStep(count, st) == count

\* mutant of MakeExperience: built after the state has been advanced
MakeExperienceLate(count, st, act, d, s1) ==
  [seq |-> count, state |-> s1, action |-> act, reward |-> 1, done |-> d,
   next_state |-> s1]

\* line 100: experience = (state, action, reward, done, s1), with the history
\* tag seq; CartPole's reward is 1 at every step
MakeExperience(count, st, act, d, s1) ==
  [seq |-> count, state |-> st, action |-> act, reward |-> 1, done |-> d,
   next_state |-> s1]

\* tensor.max(dim=1)[0]: the largest q-value
MaxQ(q) == q[ArgMax(q) + 1]

\* torch.as_tensor(dones, dtype=torch.float32)
DoneFlag(d) == IF d THEN 1 ELSE 0

\* mutant of BellmanTarget: the next state is valued by the online network
BellmanTargetOnline(e, online, target) ==
  100 * e.reward + gamma * (1 - DoneFlag(e.done)) * MaxQ(Forward(online, e.next_state))

\* lines 132-139: rewards_t + gamma * (1 - dones_t) * target_q_values for one
\* experience, in hundredths
BellmanTarget(e, online, target) ==
  100 * e.reward + gamma * (1 - DoneFlag(e.done)) * MaxQ(Forward(target, e.next_state))

\* line 132: target_net(new_states_t) is called outside torch.no_grad() and
\* its result is not detached, so it stays attached to the target's parameters
TargetOutputAttached == TRUE

\* loss.backward(): the networks whose parameters receive a gradient. The
\* loss depends on online_net through action_q_values, and on target_net
\* through optimal_q_values when the target's output is attached.
BackwardReaches(attached) ==
  {"online"} \cup (IF attached THEN {"target"} ELSE {})

\* env.step: the done flags the environment can report on its n-th step
\* since reset (term is the environment's choice, trunc its time limit)
EnvDone(n) == IF n >= MaxEpisodeSteps THEN {TRUE} ELSE BOOLEAN

\* mutant of TrainStep: a step that ends the episode handles the episode end
\* first and skips its training update and its synchronisation
TrainStepEndsEarly ==
  /\ pc = "step"
  /\ LET eps == EpsilonAt[ScheduleStep(eps_count + 1, step)]
     IN
     \E act \in SelectAction(eps, online_net, state),
        s1 \in Obs, d \in EnvDone(env_elapsed + 1) :
       LET count == eps_count + 1
           experience == MakeExperience(count, state, act, d, s1)
           mem == DequeAppend(replay_memory, experience, Capacity)
           train == ~d /\ ShouldTrain(mem)
           sync == ~d /\ ShouldSync(count)
           window == IF d THEN WindowPush(avg_window_steps, RecordedDuration(step))
                          ELSE avg_window_steps
           converged == d /\ AvgAtLeast(window, threshold)
       IN  /\ eps_count' = count
           /\ epsilon' = eps
           /\ action' = act
           /\ done' = d
           /\ replay_memory' = mem
           /\ experiences' \in (IF train THEN Sample(mem, batch_size)
                                         ELSE {experiences})
           /\ optimal_q_values' =
                IF train
                  THEN [e \in experiences' |->
                          BellmanTarget(e, online_net, target_net)]
                  ELSE optimal_q_values
           /\ has_grad' = IF train
                            THEN (has_grad \ {"online"})
                                   \cup BackwardReaches(TargetOutputAttached)
                            ELSE has_grad
           /\ decay_probe' = decay_probe
           /\ n_updates' = IF train THEN n_updates + 1 ELSE n_updates
           /\ \E p \in (IF train THEN ParamValues ELSE {online_net}) :
                LET nets == UpdateThenSync(online_net, target_net, train, sync, p)
                IN  online_net' = nets[1] /\ target_net' = nets[2]
           /\ n_syncs' = IF sync THEN n_syncs + 1 ELSE n_syncs
           /\ avg_window_steps' = window
           /\ state' \in (IF converged THEN Obs ELSE {s1})
           /\ env_elapsed' = IF converged THEN 0 ELSE env_elapsed + 1
           /\ step' = IF d THEN step ELSE step + 1
           /\ t' = IF d /\ ~converged THEN t + 1 ELSE t
           /\ pc' = IF ~d THEN "step" ELSE IF converged THEN "eval" ELSE "episode"

\* one iteration of the inner loop, lines 86-171
TrainStep ==
  /\ pc = "step"
  /\ LET eps == EpsilonAt[ScheduleStep(eps_count + 1, step)]
     IN
     \E act \in SelectAction(eps, online_net, state),
        s1 \in Obs, d \in EnvDone(env_elapsed + 1) :
       LET count == eps_count + 1
           experience == MakeExperience(count, state, act, d, s1)
           mem == DequeAppend(replay_memory, experience, Capacity)
           train == ShouldTrain(mem)
           sync == ShouldSync(count)
           window == IF d THEN WindowPush(avg_window_steps, RecordedDuration(step))
                          ELSE avg_window_steps
           converged == d /\ AvgAtLeast(window, threshold)
       IN  /\ eps_count' = count
           /\ epsilon' = eps
           /\ action' = act
           /\ done' = d
           /\ replay_memory' = mem
           /\ experiences' \in (IF train THEN Sample(mem, batch_size)
                                         ELSE {experiences})
           /\ optimal_q_values' =
                IF train
                  THEN [e \in experiences' |->
                          BellmanTarget(e, online_net, target_net)]
                  ELSE optimal_q_values
           \* optimizer.zero_grad() clears the online gradients only
           /\ has_grad' = IF train
                            THEN (has_grad \ {"online"})
                                   \cup BackwardReaches(TargetOutputAttached)
                            ELSE has_grad
           /\ decay_probe' = decay_probe
           /\ n_updates' = IF train THEN n_updates + 1 ELSE n_updates
           \* the optimizer's arithmetic is not modelled: any value p
           /\ \E p \in (IF train THEN ParamValues ELSE {online_net}) :
                LET nets == UpdateThenSync(online_net, target_net, train, sync, p)
                IN  online_net' = nets[1] /\ target_net' = nets[2]
           /\ n_syncs' = IF sync THEN n_syncs + 1 ELSE n_syncs
           /\ avg_window_steps' = window
           \* converged: env = gym.make(...); state, _ = env.reset()
           /\ state' \in (IF converged THEN Obs ELSE {s1})
           /\ env_elapsed' = IF converged THEN 0 ELSE env_elapsed + 1
           /\ step' = IF d THEN step ELSE step + 1
           /\ t' = IF d /\ ~converged THEN t + 1 ELSE t
           /\ pc' = IF ~d THEN "step" ELSE IF converged THEN "eval" ELSE "episode"

\* mutant of EvalStep: a finished evaluation episode leaves the loop
EvalStepBreaks ==
  /\ pc = "eval"
  /\ \E s1 \in Obs, d \in EnvDone(env_elapsed + 1) :
       /\ action' = Act(online_net, state)
       /\ done' = d
       /\ state' \in (IF d THEN Obs ELSE {s1})
       /\ env_elapsed' = IF d THEN 0 ELSE env_elapsed + 1
       /\ pc' = IF d THEN "episode" ELSE "eval"
  /\ UNCHANGED <<t, step, eps_count, online_net, target_net, replay_memory,
                 experiences, avg_window_steps, n_updates, n_syncs,
                 epsilon, optimal_q_values, has_grad, decay_probe>>

\* mutant of EvalStep: evaluation keeps exploring and recording experiences
EvalStepRecords ==
  /\ pc = "eval"
  /\ \E act \in SelectAction(epsilon, online_net, state), s1 \in Obs,
        d \in EnvDone(env_elapsed + 1) :
       /\ action' = act
       /\ done' = d
       /\ replay_memory' =
            DequeAppend(replay_memory,
                        [seq |-> eps_count, state |-> state, action |-> act,
                         reward |-> 1, done |-> d, next_state |-> s1],
                        Capacity)
       /\ state' \in (IF d THEN Obs ELSE {s1})
       /\ env_elapsed' = IF d THEN 0 ELSE env_elapsed + 1
       /\ pc' = "eval"
  /\ UNCHANGED <<t, step, eps_count, online_net, target_net, experiences,
                 avg_window_steps, n_updates, n_syncs,
                 epsilon, optimal_q_values, has_grad, decay_probe>>

\* one iteration of the while True loop, lines 165-170
EvalStep ==
  /\ pc = "eval"
  /\ \E s1 \in Obs, d \in EnvDone(env_elapsed + 1) :
       /\ action' = Act(online_net, state)
       /\ done' = d
       \* if done: state, _ = env.reset()
       /\ state' \in (IF d THEN Obs ELSE {s1})
       /\ env_elapsed' = IF d THEN 0 ELSE env_elapsed + 1
       /\ pc' = "eval"
  /\ UNCHANGED <<t, step, eps_count, online_net, target_net, replay_memory,
                 experiences, avg_window_steps, n_updates, n_syncs,
                 epsilon, optimal_q_values, has_grad, decay_probe>>

Next == StartEpisode \/ TrainStep \/ EvalStep \/ Exit

Spec == Init /\ [][Next]_vars

\* the script is one sequential control flow that never pauses: whenever a
\* step can be taken, one is taken
FairSpec == Spec /\ WF_vars(Next)

----------------------------------------------------------------------------
(* decay on its own: a call with arguments from bounded sets, then the     *)
(* same call at the next step, up to MaxProbeStep. The script stands still. *)

ProbeRates == 1..MaxProbeRate

\* the record of a call of decay
DecayCall(s, e, r, n) ==
  [start |-> s, end |-> e, rate |-> r, step |-> n, value |-> decay(s, e, r, n)]

DecayInit ==
  /\ decay_probe \in { DecayCall(s, e, r, 0) :
                         s \in Floats, e \in Floats, r \in ProbeRates }
  /\ pc = "probe"
  /\ t = 0
  /\ step = 0
  /\ eps_count = 0
  /\ state = 0
  /\ action = 0
  /\ done = FALSE
  /\ env_elapsed = 0
  /\ online_net = 0
  /\ target_net = 0
  /\ replay_memory = <<>>
  /\ experiences = {}
  /\ avg_window_steps = <<>>
  /\ n_updates = 0
  /\ n_syncs = 0
  /\ epsilon = epsilon_start
  /\ optimal_q_values = <<>>
  /\ has_grad = {}

DecayNextStep ==
  /\ pc = "probe"
  /\ decay_probe.step < MaxProbeStep
  /\ decay_probe' = DecayCall(decay_probe.start, decay_probe.end,
                              decay_probe.rate, decay_probe.step + 1)
  /\ UNCHANGED <<pc, t, step, eps_count, state, action, done, env_elapsed,
                 online_net, target_net, replay_memory, experiences,
                 avg_window_steps, n_updates, n_syncs, epsilon,
                 optimal_q_values, has_grad>>

DecayNext == DecayNextStep

DecaySpec == DecayInit /\ [][DecayNext]_vars

----------------------------------------------------------------------------
(* Properties *)

\* the mode of the control loop at a position of the control flow
Mode ==
  IF pc = "eval" THEN "EVALUATING"
  ELSE IF pc = "exit" THEN "TERMINATED" ELSE "EXPLORING_TRAINING"

\* a is the first index of the maximum of the q-values of parameters p at s
IsGreedy(a, p, s) ==
  LET q == Forward(p, s)
  IN  /\ \A b \in Actions : q[a + 1] >= q[b + 1]
      /\ \A b \in Actions : (b < a) => q[b + 1] < q[a + 1]

\* C1: the replay memory never holds more than Capacity experiences; after
\* Capacity + k appends (every training step appends once, tagging the
\* experience with the step counter) it holds exactly Capacity of them, and
\* what it holds are the most recently appended ones in insertion order.
ReplayKeepsMostRecent ==
  /\ Len(replay_memory) <= Capacity
  /\ (eps_count >= Capacity => Len(replay_memory) = Capacity)
  /\ \A i \in 1..Len(replay_memory) :
       replay_memory[i].seq = eps_count - Len(replay_memory) + i

\* C1 witness: more appends than the capacity, so the oldest were evicted
ReplayHasEvicted ==
  /\ eps_count > Capacity
  /\ Len(replay_memory) = Capacity
  /\ replay_memory[1].seq > 1

\* C2: a training step samples a batch and performs one update exactly when
\* the replay memory, after the step's append, holds at least batch_size
\* experiences; a batch always has batch_size elements; no update happens in
\* the first batch_size - 1 steps.
UpdateIffEnoughExperiences ==
  /\ [](eps_count < batch_size => n_updates = 0 /\ experiences = {})
  /\ [](experiences # {} => Cardinality(experiences) = batch_size)
  /\ [][pc = "step" =>
          /\ (Len(replay_memory') >= batch_size => n_updates' = n_updates + 1)
          /\ (Len(replay_memory') < batch_size =>
                n_updates' = n_updates /\ experiences' = experiences)
          /\ (experiences' # experiences => Len(replay_memory') >= batch_size)
       ]_vars

\* C2 witness: the first update, in the step that brings the memory to
\* batch_size experiences
FirstUpdateAtBatchSize ==
  /\ eps_count = batch_size
  /\ n_updates = 1
  /\ Cardinality(experiences) = batch_size

\* C3: the target's parameters change only through the synchronisation: a
\* training step whose counter value is no multiple of SyncInterval leaves
\* them as they were, also when it performs a training update, and no other
\* operation touches them.
TargetChangesOnlyBySync ==
  [][ /\ (pc = "step" /\ eps_count' % SyncInterval # 0 =>
            target_net' = target_net)
      /\ (pc # "step" => target_net' = target_net)
    ]_vars

\* C3 witness: updates have moved the online parameters away from the
\* target's, which no synchronisation has touched yet
OnlineTrainedTargetKept ==
  /\ n_updates >= 1
  /\ n_syncs = 0
  /\ online_net # target_net

\* C4: a training step synchronises the target exactly when the step counter,
\* after the step's increment, is a multiple of SyncInterval; after n steps
\* exactly n \div SyncInterval synchronisations have happened.
SyncEveryInterval ==
  /\ [](n_syncs = eps_count \div SyncInterval)
  /\ [][pc = "step" =>
          /\ (eps_count' % SyncInterval = 0 => n_syncs' = n_syncs + 1)
          /\ (eps_count' % SyncInterval # 0 => n_syncs' = n_syncs)
       ]_vars

\* C4 witness: the second synchronisation, at step 2 * SyncInterval
SecondSyncDone ==
  /\ eps_count = 2 * SyncInterval
  /\ n_syncs = 2

\* C5: right after initialisation, and at the end of every training step
\* whose counter value is a multiple of SyncInterval, the target's parameters
\* equal the online parameters as they are after that step's update.
TargetEqualsOnlineAfterSync ==
  /\ [](eps_count = 0 => target_net = online_net)
  /\ [][pc = "step" /\ eps_count' % SyncInterval = 0 =>
          target_net' = online_net']_vars

\* C5 witness: a synchronising step that also performed an update
SyncedAfterUpdate ==
  /\ eps_count = SyncInterval
  /\ n_syncs = 1
  /\ n_updates >= 1
  /\ target_net = online_net

\* C6 as stated: every environment step, of training and of evaluation alike,
\* increments the step counter once.
CountsEveryEnvStep ==
  [][(pc = "step" \/ pc = "eval") => eps_count' = eps_count + 1]_vars

\* C6, amended: every training step (one env.step call) increments the step
\* counter by exactly one; nothing else changes it: not an episode start, not
\* the end of the run, and not the evaluation loop's env.step calls.
CountsEveryTrainingStep ==
  [][ /\ (pc = "step" => eps_count' = eps_count + 1)
      /\ (pc # "step" => eps_count' = eps_count)
    ]_vars

\* C6 witness: in a later episode the counter exceeds the episode's own steps
CounterSpansEpisodes ==
  /\ pc = "step"
  /\ t >= 1
  /\ step >= 1
  /\ eps_count > step

\* C7: the mode changes only from EXPLORING_TRAINING to EVALUATING, at an
\* episode end whose rolling average reaches the threshold; from EVALUATING
\* the loop never leaves, and it always has a next step to take.
EvaluatingIsTerminal ==
  /\ [](Mode = "EVALUATING" => ENABLED EvalStep)
  /\ [][ /\ (Mode = "EVALUATING" => Mode' = "EVALUATING")
         /\ (Mode # "EVALUATING" /\ Mode' = "EVALUATING" =>
               /\ pc = "step"
               /\ done'
               /\ AvgAtLeast(avg_window_steps', threshold))
         /\ (Mode' = "EXPLORING_TRAINING" => Mode = "EXPLORING_TRAINING")
       ]_vars

\* C7 witness: the evaluation loop has run past a step that did not end an
\* evaluation episode
EvaluationRunning ==
  /\ pc = "eval"
  /\ env_elapsed > 0

\* C8: an evaluation step changes neither network, nor the replay memory, the
\* step counter or the duration window; its action is the online network's
\* greedy action; the environment is reset exactly when it reports done.
EvaluationLearnsNothing ==
  [][pc = "eval" =>
       /\ UNCHANGED <<online_net, target_net, replay_memory, experiences,
                      eps_count, avg_window_steps, n_updates, n_syncs,
                      epsilon, optimal_q_values, has_grad>>
       /\ IsGreedy(action', online_net, state)
       /\ (done' => env_elapsed' = 0)
       /\ (~done' => env_elapsed' = env_elapsed + 1)
    ]_vars

\* C8 witness: evaluation took the greedy action 1 with a full replay memory
\* and networks that differ
EvaluationActedGreedily ==
  /\ pc = "eval"
  /\ ~done
  /\ action = 1
  /\ Len(replay_memory) = Capacity
  /\ online_net # target_net

\* C9 as stated: convergence is declared only on a full window of WindowSize
\* durations whose average reaches the threshold.
ConvergenceOnFullWindow ==
  pc = "eval" =>
    /\ Len(avg_window_steps) = WindowSize
    /\ AvgAtLeast(avg_window_steps, threshold)

\* C10 as stated: the duration recorded at an episode's end is the number of
\* environment steps of that episode.
RecordsStepCount ==
  (pc = "episode" /\ avg_window_steps # <<>>) =>
    avg_window_steps[Len(avg_window_steps)] = env_elapsed

\* episodes that have ended so far: t counts those that ended without
\* convergence, and the evaluation loop follows one more
EpisodesCompleted == t + (IF pc = "eval" THEN 1 ELSE 0)

Min(a, b) == IF a <= b THEN a ELSE b

\* C11: the duration window never holds more than WindowSize entries: it
\* holds one entry for each of the last min(WindowSize, episodes completed)
\* episodes; an episode end appends the value recorded for that episode
\* behind the entries already there, dropping the oldest one when the window
\* was full; nothing else changes the window.
WindowKeepsLastEpisodes ==
  /\ [](Len(avg_window_steps) = Min(WindowSize, EpisodesCompleted))
  /\ [][ /\ (pc = "step" /\ done' =>
               LET n == Len(avg_window_steps)
                   m == Len(avg_window_steps')
                   kept == SubSeq(avg_window_steps', 1, m - 1)
               IN  /\ m = Min(n + 1, WindowSize)
                   /\ avg_window_steps'[m] = step
                   /\ kept = (IF n = WindowSize THEN Tail(avg_window_steps)
                                                ELSE avg_window_steps))
         /\ (~(pc = "step" /\ done') => avg_window_steps' = avg_window_steps)
       ]_vars

\* C11 witness: more episodes have ended than the window holds
WindowHasEvicted ==
  /\ EpisodesCompleted > WindowSize
  /\ Len(avg_window_steps) = WindowSize

\* C12: during training the replay memory holds min(step counter, Capacity)
\* experiences; a training step appends exactly one (tagged with the counter)
\* and nothing else changes the memory: it survives episode boundaries.
ReplaySizeFollowsCounter ==
  /\ [](Len(replay_memory) = Min(eps_count, Capacity))
  /\ [][ /\ (pc = "step" =>
               /\ Len(replay_memory') = Min(Len(replay_memory) + 1, Capacity)
               /\ replay_memory'[Len(replay_memory')].seq = eps_count')
         /\ (pc # "step" => replay_memory' = replay_memory)
       ]_vars

\* C12 witness: a later episode starts with the memory still full
ReplayKeptAcrossEpisodes ==
  /\ pc = "step"
  /\ step = 0
  /\ t >= 1
  /\ Len(replay_memory) = Capacity

\* C13: the batch of a training update consists of batch_size different
\* experiences, each of them stored in the replay memory as it is after the
\* step's append.
BatchFromMemory ==
  [][pc = "step" /\ n_updates' = n_updates + 1 =>
       /\ Cardinality(experiences') = batch_size
       /\ \A e \in experiences' :
            \E i \in 1..Len(replay_memory') : replay_memory'[i] = e
    ]_vars

\* C13 witness: a batch that holds the experience appended in the same step
BatchHoldsNewest ==
  /\ n_updates >= 1
  /\ Cardinality(experiences) = batch_size
  /\ \E e \in experiences : e.seq = eps_count

\* training episodes started so far
EpisodesStarted == t + (IF pc \in {"step", "eval"} THEN 1 ELSE 0)

\* C14: at most NumEpisodes training episodes are started; the script ends
\* only after NumEpisodes episodes, the last of which did not reach the
\* threshold; and every run eventually leaves training, for the end of the
\* script or for the evaluation loop (the environment ends every episode:
\* it truncates at MaxEpisodeSteps).
TrainingEventuallyEnds ==
  /\ [](EpisodesStarted <= NumEpisodes)
  /\ [](pc = "exit" =>
          t = NumEpisodes /\ ~AvgAtLeast(avg_window_steps, threshold))
  /\ <>(pc = "exit" \/ pc = "eval")

\* C14 witness: the script has ended after NumEpisodes episodes
ScriptEnded ==
  /\ pc = "exit"
  /\ t = NumEpisodes
  /\ Len(avg_window_steps) = WindowSize

\* C15: the epsilon of a training step is decay(start, end, rate, n) with n
\* the cumulative step counter after the step's increment; from one step to
\* the next it never rises, and nothing but a training step changes it: an
\* episode start neither resets nor raises it.
EpsilonFollowsCounter ==
  [][ /\ (pc = "step" =>
            /\ epsilon' = decay(epsilon_start, epsilon_end, epsilon_decayrate,
                                eps_count + 1)
            /\ epsilon' <= epsilon
            /\ action' \in SelectAction(epsilon', online_net, state))
      /\ (pc # "step" => epsilon' = epsilon)
    ]_vars

\* C15 witness: after the first step of a later episode epsilon is below the
\* value it had at the first step of the run
EpsilonFellAcrossEpisodes ==
  /\ pc = "step"
  /\ t >= 1
  /\ step = 1
  /\ epsilon < decay(epsilon_start, epsilon_end, epsilon_decayrate, 1)
  /\ epsilon > epsilon_end

\* C16 as stated, at step 0: decay(s, e, r, 0) is s (here for the ordered,
\* non-negative arguments 0 <= e <= s of a schedule).
DecayAtZeroIsStart ==
  (/\ decay_probe.step = 0
   /\ decay_probe.start >= decay_probe.end
   /\ decay_probe.end >= 0) => decay_probe.value = decay_probe.start

\* C16, amended: decay(s, e, r, 0) is s up to floating-point rounding: for
\* 0 <= e <= s it differs from s by at most the distance between neighbouring
\* floats at s, and it is s exactly for the script's start and end; for
\* s >= e and r > 0 the result never rises from one step to the next and is
\* never below e.
DecayRoundsAtZeroAndFalls ==
  /\ []((/\ decay_probe.step = 0
         /\ decay_probe.start >= decay_probe.end
         /\ decay_probe.end >= 0) =>
          Abs(decay_probe.value - decay_probe.start) <= Ulp(decay_probe.start))
  /\ []((/\ decay_probe.step = 0
         /\ decay_probe.start = epsilon_start
         /\ decay_probe.end = epsilon_end) =>
          decay_probe.value = decay_probe.start)
  /\ [](decay_probe.start >= decay_probe.end =>
          decay_probe.value >= decay_probe.end)
  /\ [][decay_probe.start >= decay_probe.end =>
          decay_probe'.value <= decay_probe.value]_vars

\* C16 witness: a schedule that was rounded at step 0 and has fallen to its
\* end value
DecayRoundedAndFallen ==
  /\ decay_probe.step = MaxProbeStep
  /\ decay_probe.start > decay_probe.end
  /\ decay_probe.end > 0
  /\ decay_probe.value = decay_probe.end
  /\ decay(decay_probe.start, decay_probe.end, decay_probe.rate, 0)
       # decay_probe.start

\* C17: in a training update the Bellman target of every batch element is
\* reward + gamma * (1 - done) * (the largest value the target network, as it
\* is before the step, gives for next_state), in hundredths: it is the reward
\* alone for an element with done = True.
BellmanTargetMasksTerminal ==
  [][pc = "step" /\ n_updates' = n_updates + 1 =>
       /\ DOMAIN optimal_q_values' = experiences'
       /\ \A e \in experiences' :
            LET q == Forward(target_net, e.next_state)
                best == IF q[1] >= q[2] THEN q[1] ELSE q[2]
            IN  /\ (e.done => optimal_q_values'[e] = 100 * e.reward)
                /\ (~e.done =>
                      optimal_q_values'[e] = 100 * e.reward + gamma * best)
    ]_vars

\* C17 witness: the first update, before any synchronisation, with a target
\* network that values every next state at 1: the terminal element's target
\* is its reward, the other element's target adds gamma times that value
TerminalTargetIsReward ==
  /\ n_updates = 1
  /\ n_syncs = 0
  /\ \A s \in Obs : MaxQ(Forward(target_net, s)) = 1
  /\ \E e1 \in DOMAIN optimal_q_values, e2 \in DOMAIN optimal_q_values :
       /\ e1.done
       /\ optimal_q_values[e1] = 100
       /\ ~e2.done
       /\ optimal_q_values[e2] = 100 + gamma

\* C18: a training step does its work in the order of the loop body. The
\* counter is incremented before epsilon is computed; the experience is
\* appended before the update's guard is evaluated; the state is advanced to
\* the environment's answer; the update precedes the synchronisation, which
\* copies the updated online parameters; and a step that ends the episode
\* still appends, updates and synchronises before the duration is recorded.
\* No step's update is left over for a later step: after n steps exactly
\* max(0, n - batch_size + 1) updates have been performed.
StepOrder ==
  /\ [](n_updates = IF eps_count >= batch_size
                      THEN eps_count - batch_size + 1 ELSE 0)
  /\ [][pc = "step" =>
          LET appended == replay_memory'[Len(replay_memory')]
          IN  /\ eps_count' = eps_count + 1
              /\ epsilon' = decay(epsilon_start, epsilon_end,
                                  epsilon_decayrate, eps_count')
              /\ appended.seq = eps_count'
              /\ (pc' = "step" => state' = appended.next_state)
              /\ (n_updates' = n_updates + 1
                    <=> Len(replay_memory') >= batch_size)
              /\ (n_updates' = n_updates + 1 => "online" \in has_grad')
              /\ (eps_count' % SyncInterval = 0 =>
                    n_syncs' = n_syncs + 1 /\ target_net' = online_net')
              /\ (done' =>
                    /\ pc' # "step"
                    /\ appended.done
                    /\ avg_window_steps'[Len(avg_window_steps')] = step)
       ]_vars

\* C18 witness: a step that ended an episode has appended, updated and
\* synchronised
EpisodeEndAfterUpdateAndSync ==
  /\ pc = "episode"
  /\ done
  /\ eps_count = SyncInterval
  /\ n_updates = SyncInterval - batch_size + 1
  /\ n_syncs = 1
  /\ target_net = online_net
  /\ replay_memory[Len(replay_memory)].seq = eps_count
  /\ \E e \in experiences : e.seq = eps_count

\* C19: every stored experience holds an observation, a valid action, the
\* reward, a done flag and an observation; a training step stores the state
\* it started from, the action it selected, the done flag and the state the
\* environment returned, which becomes the current state; so an experience
\* stored behind one that did not end its episode starts from that one's
\* next_state.
TransitionsWellFormed ==
  /\ [](\A i \in 1..Len(replay_memory) :
          /\ replay_memory[i].state \in Obs
          /\ replay_memory[i].action \in Actions
          /\ replay_memory[i].reward = 1
          /\ replay_memory[i].done \in BOOLEAN
          /\ replay_memory[i].next_state \in Obs
          /\ (i < Len(replay_memory) /\ ~replay_memory[i].done =>
                replay_memory[i + 1].state = replay_memory[i].next_state))
  /\ [][pc = "step" =>
          LET stored == replay_memory'[Len(replay_memory')]
          IN  /\ stored.state = state
              /\ stored.action = action'
              /\ stored.done = done'
              /\ (~done' => stored.next_state = state')
       ]_vars

\* C19 witness: two experiences of one episode, stored one behind the other,
\* the first of which changed the state
TransitionsChained ==
  /\ Len(replay_memory) >= 2
  /\ ~replay_memory[1].done
  /\ replay_memory[1].state # replay_memory[1].next_state
  /\ replay_memory[2].state = replay_memory[1].next_state
  /\ replay_memory[2].seq = replay_memory[1].seq + 1

\* C20 as stated: the backward pass of a training update computes no gradient
\* for the target network's parameters.
TargetGetsNoGradient == "target" \notin has_grad

====
